---- MODULE Spec2Model ----
(***************************************************************************)
(* Model of the ranking and portfolio-balancing engine                     *)
(* (src/src/utils/ranking.py, class UniversityRanker) and of its call site *)
(* in src/app/streamlit_app.py.                                            *)
(*                                                                         *)
(* Numbers.  Scores, rates and the student strength are Python floats in   *)
(* the source.  The values read from a record and the tiered sub-scores    *)
(* are modelled in fixed point, in thousandths: 1.0 is 1000, 0.04 is 40.   *)
(* The GPA is in tenths (3.8 is 38).  The student strength and the         *)
(* acceptance fit are modelled as doubles, with their rounding (see        *)
(* below).  The weights are in hundredths, so the weighted total is in     *)
(* units of 1/100000 and round(total, 3) rounds it to a multiple of 100.   *)
(* Money is in whole dollars as in the source.                             *)
(*                                                                         *)
(* Records.  A candidate is a Python dict: it is modelled as a function    *)
(* from its keys (strings) to values, so that a key can be absent and      *)
(* uni['k'] on an absent key is the KeyError of the source.                *)
(*                                                                         *)
(* Deadlines.  A deadline value is [kind |-> "iso", day |-> d] for a       *)
(* string 'YYYY-MM-DD' that names calendar day d, [kind |-> "text"] for a  *)
(* string that pandas.to_datetime rejects with an exception ('Rolling',    *)
(* '2026-13-45'), and [kind |-> "blank"] for the values pandas.to_datetime *)
(* turns into NaT without raising ('' and a NaN cell).  The clock is in    *)
(* hours; calendar day d starts at hour 24 * d.                            *)
(***************************************************************************)
EXTENDS Integers, Sequences, FiniteSets, Bags, TLC

VARIABLES
    universities,      \* the list object passed to rank_universities
    given,             \* history: the list as it was when the call began
    student_profile,   \* the profile dict
    now,               \* pd.Timestamp.now(), in hours
    pc,                \* position of the caller / of rank_universities
    idx,               \* position of the for loop in the list (1-based)
    student_strength,  \* local of rank_universities
    budget,            \* local of rank_universities
    portfolio,         \* the caller's portfolio variable
    weights,           \* self.weights of the UniversityRanker instance
    previous,          \* history: <<the list an earlier call returned>>, or <<>>
    other              \* a second invocation on the same instance (its locals)

vars == <<universities, given, student_profile, now, pc, idx,
          student_strength, budget, portfolio, weights, previous, other>>

(***************************************************************************)
(* Bounds of the model                                                     *)
(***************************************************************************)
MaxLen == 3        \* longest candidate list passed to rank_universities
MaxRanked == 5     \* longest categorized list passed to balance_portfolio alone
MaxConcLen == 2    \* longest list of each of two concurrent invocations
MaxDay == 185      \* latest deadline day tried against the clock
MaxLong == 9       \* longest list ranked and balanced in one piece

(***************************************************************************)
(* Helpers                                                                 *)
(***************************************************************************)
Abs(x) == IF x < 0 THEN 0 - x ELSE x
Min(a, b) == IF a <= b THEN a ELSE b
Max(a, b) == IF a >= b THEN a ELSE b

\* dict helpers
Has(d, k) == k \in DOMAIN d
Get(d, k, default) == IF k \in DOMAIN d THEN d[k] ELSE default
Put(d, kvs) == [k \in DOMAIN d \cup DOMAIN kvs |-> IF k \in DOMAIN kvs THEN kvs[k] ELSE d[k]]
Without(d, ks) == [k \in DOMAIN d \ ks |-> d[k]]

\* list slice l[:n]
Take(l, n) == SubSeq(l, 1, Min(n, Len(l)))

SeqsUpTo(S, n) == UNION {[1..m -> S] : m \in 0..n}

(***************************************************************************)
(* Python floats where their rounding decides a comparison                 *)
(*                                                                         *)
(* The student strength and the acceptance fit are compared with 0.7 and   *)
(* 0.4, and an input on a threshold falls to one side or the other by the  *)
(* rounding of the doubles involved (gpa 2.3, acceptance rate 1.0: the fit *)
(* is 0.7000000000000002).  These two quantities are therefore doubles in  *)
(* the model.  A double is a record [milli |-> m, err |-> e] that stands   *)
(* for the number m / 1000 + e / (1000 * 2^64): m is the decimal value the *)
(* arithmetic would give without rounding, in thousandths, and e is what   *)
(* the roundings have added to it.  Every number that occurs is below 8 in *)
(* magnitude, which keeps e within machine integers.                       *)
(***************************************************************************)
Float(m, e) == [milli |-> m, err |-> e]
Zero == Float(0, 0)
One == Float(1000, 0)

RECURSIVE Pow2(_)
Pow2(n) == IF n = 0 THEN 1 ELSE 2 * Pow2(n - 1)

\* 2^p modulo n
RECURSIVE Pow2Mod(_, _)
Pow2Mod(p, n) == IF p = 0 THEN 1 % n ELSE (2 * Pow2Mod(p - 1, n)) % n

\* the two tables RoundToDouble reads: 2^n for n up to 14, 2^p modulo 2000
Pow2Table == [n \in 0..14 |-> Pow2(n)]
Pow2Mod2000 == [p \in 0..64 |-> Pow2Mod(p, 2000)]

\* The p, from p0 on, for which 2^52 <= v * 2^p < 2^53, where v is the
\* positive number a / 1000 + x / (1000 * 2^64): 2^-p is the spacing of the
\* doubles around v.  It is capped at 64, below which every number that
\* occurs is a double already.
RECURSIVE UlpExponent(_, _, _)
UlpExponent(a, x, p0) ==
    IF p0 >= 64 THEN 64
    ELSE LET lhs == IF p0 <= 52 THEN a ELSE a * Pow2Table[p0 - 52]
             rhs == IF p0 <= 52 THEN 1000 * Pow2Table[52 - p0] ELSE 1000
         IN  IF lhs > rhs \/ (lhs = rhs /\ x >= 0) THEN p0
             ELSE UlpExponent(a, x, p0 + 1)

\* The double nearest to m / 1000 + e / (1000 * 2^64), ties to the even
\* mantissa: the rounding every float operation ends with.  G is the spacing
\* of the doubles in units of 1 / (1000 * 2^64); the remainder of the number
\* modulo G is found from a * 2^p modulo 2000.
RoundToDouble(m, e) ==
    IF m = 0 THEN Float(0, e)
    ELSE LET sg == IF m > 0 THEN 1 ELSE 0 - 1
             a == sg * m
             x == sg * e
             p == UlpExponent(a, x, 50)
             sh == Pow2Table[64 - p]
             G == 1000 * sh
             T == (((a % 2000) * Pow2Mod2000[p]) % 2000) * sh + x
             R == T % G
             q == T \div G
             d == IF 2 * R < G THEN 0 - R
                  ELSE IF 2 * R > G THEN G - R
                  ELSE IF q % 2 = 0 THEN 0 - R ELSE G - R
         IN  Float(m, sg * (x + d))

\* the double a decimal literal or a parsed decimal of k thousandths denotes
FromDecimal(k) == RoundToDouble(k, 0)

\* a < b on doubles
FloatLess(a, b) == a.milli < b.milli \/ (a.milli = b.milli /\ a.err < b.err)

\* a + b, a - b, a * 2, a / 4.0 and abs(a); the last three are exact
FloatAdd(a, b) == RoundToDouble(a.milli + b.milli, a.err + b.err)
FloatSub(a, b) == RoundToDouble(a.milli - b.milli, a.err - b.err)
Twice(a) == Float(2 * a.milli, 2 * a.err)
Quarter(a) == Float(a.milli \div 4, a.err \div 4)
FloatAbs(a) == IF FloatLess(a, Zero) THEN Float(0 - a.milli, 0 - a.err) ELSE a

\* Python's min(a, b) and max(a, b): the second argument only when it is
\* strictly smaller (larger)
FloatMin(a, b) == IF FloatLess(b, a) THEN b ELSE a
FloatMax(a, b) == IF FloatLess(a, b) THEN b ELSE a

\* the thresholds of _categorize_university as doubles
Threshold07 == FromDecimal(700)
Threshold04 == FromDecimal(400)

(***************************************************************************)
(* UniversityRanker.__init__: the weight table, in hundredths              *)
(***************************************************************************)
W_semantic_similarity == 30
W_acceptance_fit == 20
W_financial_fit == 20
W_research_quality == 15
W_employment_rate == 10
W_deadline_urgency == 5

\* a weight table with one weight mistyped
WeightTableMistyped ==
    [semantic_similarity |-> 35,
     acceptance_fit |-> W_acceptance_fit,
     financial_fit |-> W_financial_fit,
     research_quality |-> W_research_quality,
     employment_rate |-> W_employment_rate,
     deadline_urgency |-> W_deadline_urgency]

\* self.weights as __init__ builds it
WeightTable ==
    [semantic_similarity |-> W_semantic_similarity,
     acceptance_fit |-> W_acceptance_fit,
     financial_fit |-> W_financial_fit,
     research_quality |-> W_research_quality,
     employment_rate |-> W_employment_rate,
     deadline_urgency |-> W_deadline_urgency]

\* no second invocation
NoOther == [pc |-> "none"]

RawKeys == {"similarity_score", "acceptance_rate", "tuition_usd", "living_cost_monthly",
            "research_output", "employment_rate_6mo", "deadline"}
ResultKeys == {"final_score", "score_breakdown", "category"}

(***************************************************************************)
(* The sub-scores                                                          *)
(***************************************************************************)
\* the score not floored at 0
calculate_acceptance_fit_unfloored(acceptance_rate, strength) ==
    LET ideal_acceptance == Twice(strength)
        difference == FloatAbs(FloatSub(FromDecimal(acceptance_rate), ideal_acceptance))
        score == FloatSub(One, Twice(difference))
    IN  score

\* the difference not doubled
calculate_acceptance_fit_undoubled(acceptance_rate, strength) ==
    LET ideal_acceptance == Twice(strength)
        difference == FloatAbs(FloatSub(FromDecimal(acceptance_rate), ideal_acceptance))
        score == FloatMax(Zero, FloatSub(One, difference))
    IN  score

\* calculate_acceptance_fit: max(0, 1 - 2 * |acceptance_rate - 2 * strength|),
\* in doubles.  acceptance_rate is the record's decimal value in thousandths,
\* strength a double; the subtractions round, the doublings are exact.
calculate_acceptance_fit(acceptance_rate, strength) ==
    LET ideal_acceptance == Twice(strength)
        difference == FloatAbs(FloatSub(FromDecimal(acceptance_rate), ideal_acceptance))
        score == FloatMax(Zero, FloatSub(One, Twice(difference)))
    IN  score

\* The largest power of two that is at most n (1 for n < 2): the binade of n.
RECURSIVE Pow2Below(_)
Pow2Below(n) == IF n < 2 THEN 1 ELSE 2 * Pow2Below(n \div 2)

\* total_cost <= budget * 1.15 in IEEE double arithmetic.  The double nearest
\* 1.15 is 1.15 - 0.4 * 2^-52, so the product lies below the exact value by
\* 0.4 * b * 2^-52.  Off the boundary the comparison is the exact one.  On it
\* (20 * total = 23 * b) the product rounds back to total only when that
\* shortfall is at most half a unit in the last place of total, which is
\* 16 * total <= 23 * 2^floor(log2 total); otherwise it is the double just
\* below total and the comparison is false (100 * 1.15 = 114.99999999999999).
LeqTimes115(total_cost, b) ==
    \/ 20 * total_cost < 23 * b
    \/ /\ 20 * total_cost = 23 * b
       /\ 16 * total_cost <= 23 * Pow2Below(total_cost)

\* total_cost <= budget * 1.30 in IEEE double arithmetic.  The double nearest
\* 1.30 is 1.30 + 0.2 * 2^-52: the product is never below the exact value, so
\* the comparison is the exact one for integers.
LeqTimes130(total_cost, b) == 10 * total_cost <= 13 * b

\* the last tier scored 0.1
calculate_financial_fit_low_last_tier(tuition, b, living_cost) ==
    LET total_cost == tuition + (living_cost * 12)
    IN  IF total_cost <= b THEN 1000
        ELSE IF LeqTimes115(total_cost, b) THEN 800
        ELSE IF LeqTimes130(total_cost, b) THEN 500
        ELSE 100

calculate_financial_fit(tuition, b, living_cost) ==
    LET total_cost == tuition + (living_cost * 12)
    IN  IF total_cost <= b THEN 1000
        ELSE IF LeqTimes115(total_cost, b) THEN 800
        ELSE IF LeqTimes130(total_cost, b) THEN 500
        ELSE 200

\* a mapping whose lookup is mapping[research_output] on the four labels only
calculate_research_score_known_only(research_output) ==
    CASE research_output = "Very High" -> 1000
      [] research_output = "High" -> 800
      [] research_output = "Good" -> 600
      [] research_output = "Medium" -> 400
      [] OTHER -> 0

\* calculate_research_score: mapping.get(research_output, 0.5)
calculate_research_score(research_output) ==
    CASE research_output = "Very High" -> 1000
      [] research_output = "High" -> 800
      [] research_output = "Good" -> 600
      [] research_output = "Medium" -> 400
      [] OTHER -> 500

\* pd.to_datetime(deadline_str): a Timestamp (midnight of the day named), NaT
\* for the blank values, or an exception for any other text.
to_datetime(deadline_str) ==
    CASE deadline_str.kind = "iso" -> [out |-> "Timestamp", hours |-> 24 * deadline_str.day]
      [] deadline_str.kind = "blank" -> [out |-> "NaT"]
      [] OTHER -> [out |-> "raise"]

\* (deadline - today).days: Timedelta.days is the floor of the difference.
DaysBetween(deadline, today) == (deadline.hours - today) \div 24

\* the first comparison made inclusive
calculate_deadline_score_inclusive(deadline_str, today) ==
    LET deadline == to_datetime(deadline_str)
    IN  IF deadline.out = "raise" THEN 500
        ELSE IF deadline.out = "NaT" THEN 900
        ELSE LET days_remaining == DaysBetween(deadline, today)
             IN  IF days_remaining <= 30 THEN 300
                 ELSE IF days_remaining < 90 THEN 700
                 ELSE IF days_remaining < 180 THEN 1000
                 ELSE 900

\* calculate_deadline_score.  An exception in the try block gives 0.5.  For
\* NaT, deadline - today is NaT and NaT.days is nan: every `<` comparison with
\* nan is False, so control reaches the final else branch.
calculate_deadline_score(deadline_str, today) ==
    LET deadline == to_datetime(deadline_str)
    IN  IF deadline.out = "raise" THEN 500
        ELSE IF deadline.out = "NaT" THEN 900
        ELSE LET days_remaining == DaysBetween(deadline, today)
             IN  IF days_remaining < 30 THEN 300
                 ELSE IF days_remaining < 90 THEN 700
                 ELSE IF days_remaining < 180 THEN 1000
                 ELSE 900

\* the work-experience bonus added without the clamp to 1.0
calculate_student_strength_unclamped(profile) ==
    LET gpa == FromDecimal(100 * Get(profile, "gpa", 30))
        work_exp == Get(profile, "work_experience", 0) > 5
        gpa_score == FloatMin(Quarter(gpa), One)
    IN  IF work_exp THEN FloatAdd(gpa_score, FromDecimal(100)) ELSE gpa_score

\* the bonus earned from five words on
calculate_student_strength_five_words(profile) ==
    LET gpa == FromDecimal(100 * Get(profile, "gpa", 30))
        work_exp == Get(profile, "work_experience", 0) >= 5
        gpa_score == FloatMin(Quarter(gpa), One)
    IN  IF work_exp THEN FloatMin(FloatAdd(gpa_score, FromDecimal(100)), One) ELSE gpa_score

\* _calculate_student_strength, in doubles.  The profile's gpa is in tenths;
\* work_experience is modelled by the number of words str.split() finds in it;
\* a missing key is '' (0 words), a missing gpa is 3.0.
calculate_student_strength(profile) ==
    LET gpa == FromDecimal(100 * Get(profile, "gpa", 30))
        work_exp == Get(profile, "work_experience", 0) > 5
        gpa_score == FloatMin(Quarter(gpa), One)
    IN  IF work_exp THEN FloatMin(FloatAdd(gpa_score, FromDecimal(100)), One) ELSE gpa_score

\* Safety given without the test of the strength
categorize_university_any_strength(acceptance_fit, strength) ==
    IF FloatLess(Threshold07, acceptance_fit) THEN "Target"
    ELSE IF FloatLess(Threshold04, acceptance_fit) THEN "Safety"
    ELSE "Reach"

\* the labels written in lower case
categorize_university_lowercase(acceptance_fit, strength) ==
    IF FloatLess(Threshold07, acceptance_fit) THEN "target"
    ELSE IF FloatLess(Threshold07, strength) /\ FloatLess(Threshold04, acceptance_fit)
         THEN "safety"
    ELSE "reach"

\* the first comparison made non-strict
categorize_university_nonstrict(acceptance_fit, strength) ==
    IF ~FloatLess(acceptance_fit, Threshold07) THEN "Target"
    ELSE IF FloatLess(Threshold07, strength) /\ FloatLess(Threshold04, acceptance_fit)
         THEN "Safety"
    ELSE "Reach"

\* _categorize_university: both arguments are doubles, compared with the
\* doubles 0.7 and 0.4
categorize_university(acceptance_fit, strength) ==
    IF FloatLess(Threshold07, acceptance_fit) THEN "Target"
    ELSE IF FloatLess(Threshold07, strength) /\ FloatLess(Threshold04, acceptance_fit)
         THEN "Safety"
    ELSE "Reach"

\* round() replaced by truncation to three decimals
Round3Truncating(total) == total \div 100

\* round(total_score, 3): total is in units of 1/100000, the result in
\* thousandths; a tie goes to the even neighbour, as Python's round does.
Round3(total) ==
    LET q == total \div 100
        r == total % 100
    IN  IF r < 50 THEN q
        ELSE IF r > 50 THEN q + 1
        ELSE IF q % 2 = 0 THEN q ELSE q + 1

\* the dict literal of lines 80-94
Scores(uni, strength, b, today) ==
    [semantic |-> uni["similarity_score"],
     acceptance_fit |-> calculate_acceptance_fit(uni["acceptance_rate"], strength),
     financial_fit |-> calculate_financial_fit(uni["tuition_usd"], b, uni["living_cost_monthly"]),
     research |-> calculate_research_score(uni["research_output"]),
     employment |-> uni["employment_rate_6mo"],
     deadline |-> calculate_deadline_score(uni["deadline"], today)]

\* the weighted total of lines 97-104, in units of 1/100000; the acceptance
\* fit enters by its thousandths, its rounding being below what round(., 3)
\* keeps
TotalScore(scores) ==
      scores.semantic * weights.semantic_similarity
    + scores.acceptance_fit.milli * weights.acceptance_fit
    + scores.financial_fit * weights.financial_fit
    + scores.research * weights.research_quality
    + scores.employment * weights.employment_rate
    + scores.deadline * weights.deadline_urgency

\* a loop body that calls every candidate scoring above 0.7 a Target
ScoreOneTargetByScore(uni, strength, b, today) ==
    LET scores == Scores(uni, strength, b, today)
    IN  Put(uni, [final_score |-> Round3(TotalScore(scores)),
                  score_breakdown |-> scores,
                  category |-> IF Round3(TotalScore(scores)) > 700 THEN "Target"
                               ELSE categorize_university(scores.acceptance_fit, strength)])

\* a loop body that adds the new score to a final_score already stored
ScoreOneAccumulating(uni, strength, b, today) ==
    LET scores == Scores(uni, strength, b, today)
    IN  Put(uni, [final_score |-> Get(uni, "final_score", 0) + Round3(TotalScore(scores)),
                  score_breakdown |-> scores,
                  category |-> categorize_university(scores.acceptance_fit, strength)])

\* a loop body that also stores the strength it used on the record
ScoreOneExtraKey(uni, strength, b, today) ==
    LET scores == Scores(uni, strength, b, today)
    IN  Put(uni, [final_score |-> Round3(TotalScore(scores)),
                  score_breakdown |-> scores,
                  category |-> categorize_university(scores.acceptance_fit, strength),
                  student_strength |-> strength])

\* the body of the for loop for one candidate (lines 80-111)
ScoreOne(uni, strength, b, today) ==
    LET scores == Scores(uni, strength, b, today)
    IN  Put(uni, [final_score |-> Round3(TotalScore(scores)),
                  score_breakdown |-> scores,
                  category |-> categorize_university(scores.acceptance_fit, strength)])

\* a descending sort that puts a record ahead of the records it ties with
InsertDescBeforeTies(x, sorted) ==
    LET ahead == {j \in 1..Len(sorted) : sorted[j]["final_score"] > x["final_score"]}
        n == IF ahead = {} THEN 0 ELSE CHOOSE j \in ahead : \A k \in ahead : k <= j
    IN  SubSeq(sorted, 1, n) \o <<x>> \o SubSeq(sorted, n + 1, Len(sorted))

\* the sort without reverse=True
InsertAsc(x, sorted) ==
    LET ahead == {j \in 1..Len(sorted) : sorted[j]["final_score"] <= x["final_score"]}
        n == IF ahead = {} THEN 0 ELSE CHOOSE j \in ahead : \A k \in ahead : k <= j
    IN  SubSeq(sorted, 1, n) \o <<x>> \o SubSeq(sorted, n + 1, Len(sorted))

\* universities.sort(key=final_score, reverse=True): a stable sort, so equal
\* keys keep their order.  Insert x after every element whose key is >= x's.
InsertDesc(x, sorted) ==
    LET ahead == {j \in 1..Len(sorted) : sorted[j]["final_score"] >= x["final_score"]}
        n == IF ahead = {} THEN 0 ELSE CHOOSE j \in ahead : \A k \in ahead : k <= j
    IN  SubSeq(sorted, 1, n) \o <<x>> \o SubSeq(sorted, n + 1, Len(sorted))

RECURSIVE SortFrom(_, _, _)
SortFrom(l, k, acc) ==
    IF k > Len(l) THEN acc ELSE SortFrom(l, k + 1, InsertDesc(l[k], acc))

SortDesc(l) == SortFrom(l, 1, <<>>)

\* balance_portfolio (lines 140-147)
OfCategory(l, c) == SelectSeq(l, LAMBDA u : u["category"] = c)

\* the quotas of Target and Safety exchanged
balance_portfolio_quotas_swapped(l) ==
    LET reach == OfCategory(l, "Reach")
        target == OfCategory(l, "Target")
        safety == OfCategory(l, "Safety")
    IN  Take(reach, 3) \o Take(target, 3) \o Take(safety, 4)

\* the concatenation sorted by score again
balance_portfolio_resorted(l) ==
    LET reach == OfCategory(l, "Reach")
        target == OfCategory(l, "Target")
        safety == OfCategory(l, "Safety")
    IN  SortDesc(Take(reach, 3) \o Take(target, 4) \o Take(safety, 3))

balance_portfolio(l) ==
    LET reach == OfCategory(l, "Reach")
        target == OfCategory(l, "Target")
        safety == OfCategory(l, "Safety")
    IN  Take(reach, 3) \o Take(target, 4) \o Take(safety, 3)

(***************************************************************************)
(* Inputs                                                                  *)
(***************************************************************************)
Candidate(sim, ar, tu, lc, ro, er, dl) ==
    [similarity_score |-> sim, acceptance_rate |-> ar, tuition_usd |-> tu,
     living_cost_monthly |-> lc, research_output |-> ro,
     employment_rate_6mo |-> er, deadline |-> dl]

Iso(d) == [kind |-> "iso", day |-> d]
Text == [kind |-> "text"]
Blank == [kind |-> "blank"]

\* The sample of src/src/utils/ranking.py lines 155-172, its deadline more
\* than 180 days away.
DemoCandidate == Candidate(920, 40, 55000, 2000, "Very High", 950, Iso(200))
DemoProfile == [program |-> "CS", gpa |-> 38, budget |-> 60000, work_experience |-> 7]

\* Profiles: strengths 0.25, 0.70 (five words earn no bonus), 0.90 (six do),
\* 1.0, and a profile with none of the three keys (gpa 3.0, budget 50000).
Profiles ==
    { [program |-> "CS", gpa |-> 10, budget |-> 60000, work_experience |-> 0],
      [program |-> "CS", gpa |-> 28, budget |-> 60000, work_experience |-> 5],
      [program |-> "CS", gpa |-> 32, budget |-> 60000, work_experience |-> 6],
      DemoProfile,
      [program |-> "CS"] }

\* Acceptance rates on and around the category thresholds of every profile,
\* including rates above 1 (the source does not clamp them).
AcceptanceRates == {40, 350, 375, 500, 1275, 1375, 1500, 1650, 1675, 1750, 1875}
Similarities == {500, 920, 925}
Tuitions == {33500, 36000, 45000, 54000, 55000}
ResearchLabels == {"Very High", "Medium", "Excellent"}
EmploymentRates == {950, 957}
Deadlines == {Iso(30), Iso(31), Iso(180), Iso(181), Text, Blank}

\* every well-formed single candidate over the field values above
FullPool ==
    {Candidate(sim, ar, tu, 2000, ro, er, dl) :
        sim \in Similarities, ar \in AcceptanceRates, tu \in Tuitions,
        ro \in ResearchLabels, er \in EmploymentRates, dl \in Deadlines}

\* the sample candidate with every non-empty set of raw keys missing
Malformed == {Without(DemoCandidate, ks) : ks \in (SUBSET RawKeys) \ {{}}}

\* Candidates whose six sub-scores are all 0.5 (under a strength of 0.75 or
\* 1.0 and a budget of 60000) and all 1.0 (under a strength of 0.25).
NeutralCandidate == Candidate(500, 1750, 54000, 2000, "Excellent", 500, Text)
PerfectCandidate == Candidate(1000, 500, 33500, 2000, "Very High", 1000, Iso(91))

\* candidates that lists are built from
Catalogue ==
    { DemoCandidate,
      Candidate(500, 500, 36000, 2000, "High", 950, Text),
      Candidate(925, 375, 45000, 2000, "Good", 957, Iso(31)),
      Candidate(920, 1750, 54000, 2000, "Medium", 950, Iso(91)),
      Candidate(500, 1650, 33500, 2000, "Excellent", 957, Blank),
      NeutralCandidate,
      PerfectCandidate,
      Without(DemoCandidate, {"tuition_usd"}),
      Without(Candidate(500, 500, 0, 0, "High", 950, Text), {"living_cost_monthly", "deadline"}) }

\* the caller numbers the records it retrieved
Named(l) == [j \in 1..Len(l) |-> Put(l[j], [univ_name |-> j])]

Inputs ==
    {Named(l) : l \in SeqsUpTo(Catalogue, MaxLen)}
    \cup {Named(<<u>>) : u \in FullPool \cup Malformed}

\* categorized records, as balance_portfolio reads them
Ranked(score, cat) == [final_score |-> score, category |-> cat]
Categories == {"Reach", "Target", "Safety"}

\* 15 records sorted by final_score, five of each category
Example555 ==
    [j \in 1..15 |-> [univ_name |-> j, final_score |-> 1000 - 10 * j,
                      category |-> CASE j % 3 = 1 -> "Reach"
                                     [] j % 3 = 2 -> "Target"
                                     [] OTHER -> "Safety"]]

\* 21 records sorted by final_score: 1 Reach, 10 Target, 10 Safety
Example1_10_10 ==
    [j \in 1..21 |-> [univ_name |-> j, final_score |-> 1000 - 10 * j,
                      category |-> IF j = 12 THEN "Reach"
                                   ELSE IF j % 2 = 0 THEN "Target" ELSE "Safety"]]

RankedInputs ==
    {Named(l) : l \in SeqsUpTo({Ranked(sc, c) : sc \in {400, 600}, c \in Categories}, MaxRanked)}
    \cup {Example555, Example1_10_10}

(***************************************************************************)
(* The call site (src/app/streamlit_app.py lines 588-626) and              *)
(* rank_universities, one step per candidate                               *)
(***************************************************************************)
Init ==
    /\ universities \in Inputs
    /\ given = universities
    /\ student_profile \in Profiles
    /\ now = 12
    /\ pc = "call"
    /\ idx = 0
    /\ student_strength = Zero
    /\ budget = 0
    /\ portfolio = <<>>
    /\ weights = WeightTable
    /\ previous = <<>>
    /\ other = NoOther

\* lines 76-77
RankBegin ==
    /\ pc = "call"
    /\ student_strength' = calculate_student_strength(student_profile)
    /\ budget' = Get(student_profile, "budget", 50000)
    /\ idx' = 1
    /\ pc' = "loop"
    /\ UNCHANGED <<weights, previous, other, universities, given, student_profile, now, portfolio>>

\* lines 79-111 for one candidate that has every key the loop reads
RankScore ==
    /\ pc = "loop"
    /\ idx <= Len(universities)
    /\ RawKeys \subseteq DOMAIN universities[idx]
    /\ universities' = [universities EXCEPT
                          ![idx] = ScoreOne(universities[idx], student_strength, budget, now)]
    /\ idx' = idx + 1
    /\ UNCHANGED <<weights, previous, other, given, student_profile, now, pc, student_strength, budget, portfolio>>

\* a failure that takes the scores already stored off the records again
RankKeyErrorRollingBack ==
    /\ pc = "loop"
    /\ idx <= Len(universities)
    /\ ~(RawKeys \subseteq DOMAIN universities[idx])
    /\ universities' = [j \in 1..Len(universities) |-> Without(universities[j], ResultKeys)]
    /\ pc' = "raised"
    /\ UNCHANGED <<weights, previous, other, given, student_profile, now, idx, student_strength,
                   budget, portfolio>>

\* lines 80-94 for a candidate that lacks a key: uni['...'] raises KeyError
\* while the dict literal is built, before anything is stored
RankKeyError ==
    /\ pc = "loop"
    /\ idx <= Len(universities)
    /\ ~(RawKeys \subseteq DOMAIN universities[idx])
    /\ pc' = "raised"
    /\ UNCHANGED <<weights, previous, other, universities, given, student_profile, now, idx, student_strength,
                   budget, portfolio>>

\* the sort step of a ranker that fails on an empty list
RankSortFailsOnEmpty ==
    /\ pc = "loop"
    /\ idx > Len(universities)
    /\ IF Len(universities) = 0
       THEN pc' = "raised" /\ UNCHANGED universities
       ELSE universities' = SortDesc(universities) /\ pc' = "ranked"
    /\ UNCHANGED <<weights, previous, other, given, student_profile, now, idx, student_strength, budget, portfolio>>

\* lines 113-115
RankSort ==
    /\ pc = "loop"
    /\ idx > Len(universities)
    /\ universities' = SortDesc(universities)
    /\ pc' = "ranked"
    /\ UNCHANGED <<weights, previous, other, given, student_profile, now, idx, student_strength, budget, portfolio>>

\* a balance step that removes the records it selects from its input
BalanceConsuming ==
    /\ pc = "ranked"
    /\ LET selected == balance_portfolio(universities)
       IN  /\ portfolio' = selected
           /\ universities' = SelectSeq(universities,
                                  LAMBDA u : \A p \in 1..Len(selected) : selected[p] # u)
    /\ pc' = "done"
    /\ UNCHANGED <<weights, previous, other, given, student_profile, now, idx,
                   student_strength, budget>>

\* streamlit_app.py line 594: portfolio = ranker.balance_portfolio(ranked)
Balance ==
    /\ pc = "ranked"
    /\ portfolio' = balance_portfolio(universities)
    /\ pc' = "done"
    /\ UNCHANGED <<weights, previous, other, universities, given, student_profile, now, idx, student_strength, budget>>

\* streamlit_app.py lines 595-626: the ranker failed, the first ten matches
\* are shown with a default category and score where they have none
FallbackOne(uni) ==
    LET acceptance == Get(uni, "acceptance_rate", 500)
        cat == IF acceptance > 400 THEN "Safety"
               ELSE IF acceptance > 200 THEN "Target" ELSE "Reach"
        withCat == IF Has(uni, "category") THEN uni ELSE Put(uni, [category |-> cat])
    IN  IF Has(withCat, "final_score") THEN withCat
        ELSE Put(withCat, [final_score |-> Get(uni, "similarity_score", 500)])

RankerFallback ==
    /\ pc = "raised"
    /\ universities' = [j \in 1..Len(universities) |->
                          IF j <= 10 THEN FallbackOne(universities[j]) ELSE universities[j]]
    /\ portfolio' = Take(universities', 10)
    /\ pc' = "fallback"
    /\ UNCHANGED <<weights, previous, other, given, student_profile, now, idx, student_strength, budget>>

Next ==
    \/ RankBegin
    \/ RankScore
    \/ RankKeyError
    \/ RankSort
    \/ Balance
    \/ RankerFallback

Spec == Init /\ [][Next]_vars

(***************************************************************************)
(* rank_universities called again, with the same profile and clock, on the *)
(* list it has just returned                                               *)
(***************************************************************************)
Rerun ==
    /\ pc = "ranked"
    /\ previous = <<>>
    /\ previous' = <<universities>>
    /\ pc' = "call"
    /\ UNCHANGED <<universities, given, student_profile, now, idx, student_strength,
                   budget, portfolio, weights, other>>

NextRerun ==
    \/ RankBegin
    \/ RankScore
    \/ RankKeyError
    \/ RankSort
    \/ Rerun

SpecRerun == Init /\ [][NextRerun]_vars

(***************************************************************************)
(* Two invocations of rank_universities on one UniversityRanker instance,  *)
(* each on its own list, interleaved at every per-candidate step.  The     *)
(* second invocation's list, profile and locals are the fields of `other`; *)
(* self.weights and the clock are shared.                                  *)
(***************************************************************************)
ConcCatalogue ==
    { DemoCandidate,
      Candidate(500, 500, 36000, 2000, "High", 950, Text),
      Candidate(925, 375, 45000, 2000, "Good", 957, Iso(31)) }

ConcInputs == {Named(l) : l \in SeqsUpTo(ConcCatalogue, MaxConcLen)}

ConcProfiles == {DemoProfile, [program |-> "CS"]}

InitConc ==
    /\ universities \in ConcInputs
    /\ given = universities
    /\ student_profile \in ConcProfiles
    /\ now = 12
    /\ pc = "call"
    /\ idx = 0
    /\ student_strength = Zero
    /\ budget = 0
    /\ portfolio = <<>>
    /\ weights = WeightTable
    /\ previous = <<>>
    /\ \E l \in ConcInputs, p \in ConcProfiles :
          other = [pc |-> "call", universities |-> l, given |-> l, student_profile |-> p,
                   idx |-> 0, student_strength |-> Zero, budget |-> 0]

\* a second invocation that keeps its strength and budget on the instance,
\* where the first invocation reads them too
OtherBeginOnInstance ==
    /\ other.pc = "call"
    /\ student_strength' = calculate_student_strength(other.student_profile)
    /\ budget' = Get(other.student_profile, "budget", 50000)
    /\ other' = [other EXCEPT
                    !.student_strength = calculate_student_strength(other.student_profile),
                    !.budget = Get(other.student_profile, "budget", 50000),
                    !.idx = 1,
                    !.pc = "loop"]
    /\ UNCHANGED <<universities, given, student_profile, now, pc, idx, portfolio,
                   weights, previous>>

\* lines 76-77, second invocation
OtherBegin ==
    /\ other.pc = "call"
    /\ other' = [other EXCEPT
                    !.student_strength = calculate_student_strength(other.student_profile),
                    !.budget = Get(other.student_profile, "budget", 50000),
                    !.idx = 1,
                    !.pc = "loop"]
    /\ UNCHANGED <<universities, given, student_profile, now, pc, idx, student_strength,
                   budget, portfolio, weights, previous>>

\* lines 79-111 for one candidate, second invocation
OtherScore ==
    /\ other.pc = "loop"
    /\ other.idx <= Len(other.universities)
    /\ RawKeys \subseteq DOMAIN other.universities[other.idx]
    /\ other' = [other EXCEPT
                    !.universities[other.idx] =
                        ScoreOne(other.universities[other.idx], other.student_strength,
                                 other.budget, now),
                    !.idx = other.idx + 1]
    /\ UNCHANGED <<universities, given, student_profile, now, pc, idx, student_strength,
                   budget, portfolio, weights, previous>>

\* lines 113-115, second invocation
OtherSort ==
    /\ other.pc = "loop"
    /\ other.idx > Len(other.universities)
    /\ other' = [other EXCEPT !.universities = SortDesc(other.universities),
                              !.pc = "ranked"]
    /\ UNCHANGED <<universities, given, student_profile, now, pc, idx, student_strength,
                   budget, portfolio, weights, previous>>

NextConc ==
    \/ RankBegin
    \/ RankScore
    \/ RankSort
    \/ OtherBegin
    \/ OtherScore
    \/ OtherSort

SpecConc == InitConc /\ [][NextConc]_vars

(***************************************************************************)
(* The sample candidate ranked with every deadline day from three days     *)
(* past to MaxDay, at several times of day                                 *)
(***************************************************************************)
ClockHours == {0, 1, 12, 23, 24, 36}

InitDeadline ==
    /\ \E day \in (0 - 3)..MaxDay :
          universities = Named(<<Put(DemoCandidate, [deadline |-> Iso(day)])>>)
    /\ given = universities
    /\ student_profile = DemoProfile
    /\ now \in ClockHours
    /\ pc = "call"
    /\ idx = 0
    /\ student_strength = Zero
    /\ budget = 0
    /\ portfolio = <<>>
    /\ weights = WeightTable
    /\ previous = <<>>
    /\ other = NoOther

NextDeadline ==
    \/ RankBegin
    \/ RankScore
    \/ RankSort

SpecDeadline == InitDeadline /\ [][NextDeadline]_vars

(***************************************************************************)
(* balance_portfolio alone, on every categorized list                      *)
(***************************************************************************)
InitBalance ==
    /\ universities \in RankedInputs
    /\ given = universities
    /\ student_profile = DemoProfile
    /\ now = 12
    /\ pc = "ranked"
    /\ idx = 0
    /\ student_strength = Zero
    /\ budget = 0
    /\ portfolio = <<>>
    /\ weights = WeightTable
    /\ previous = <<>>
    /\ other = NoOther

NextBalance == Balance

SpecBalance == InitBalance /\ [][NextBalance]_vars

(***************************************************************************)
(* Two candidates that differ in every field but, possibly, the acceptance *)
(* rate, ranked under a grid of profiles: every pair of rates of RateGrid  *)
(* against strengths from 0 to 1                                           *)
(***************************************************************************)
\* Rates (thousandths): the multiples of 0.125 up to 2.5, which are doubles
\* exactly, and decimal rates that are not, inside and outside [0, 1].
RateGrid ==
    {125 * n : n \in 0..20}
    \cup {40, 350, 900, 1150, 1300, 1400, 1650, 1900, 2400}

\* gpa 0.0 to 4.5, each with five and with six words of work experience
GradeProfiles ==
    {[program |-> "CS", gpa |-> g, budget |-> 60000, work_experience |-> w] :
        g \in {0, 10, 20, 23, 24, 28, 30, 38, 40, 45}, w \in {5, 6}}

PairInputs ==
    {Named(<<Put(DemoCandidate, [acceptance_rate |-> r1]),
             Candidate(1000, r2, 36000, 1000, "High", 600, Text)>>) :
        r1 \in RateGrid, r2 \in RateGrid}

InitFit ==
    /\ universities \in PairInputs
    /\ given = universities
    /\ student_profile \in GradeProfiles
    /\ now = 12
    /\ pc = "call"
    /\ idx = 0
    /\ student_strength = Zero
    /\ budget = 0
    /\ portfolio = <<>>
    /\ weights = WeightTable
    /\ previous = <<>>
    /\ other = NoOther

NextFit ==
    \/ RankBegin
    \/ RankScore
    \/ RankSort

SpecFit == InitFit /\ [][NextFit]_vars

(***************************************************************************)
(* One candidate ranked under a wide range of profiles: field values at    *)
(* the ends of their documented domains and outside them                   *)
(***************************************************************************)
\* the value of a research_output cell that holds no label (None, NaN): it
\* is no key of the mapping
NoLabel == "nan"

AllResearchLabels == {"Very High", "High", "Good", "Medium", "Excellent", "", NoLabel}

\* gpa -1.0 to 4.5 (the source clamps neither end on input), budget 0 and
\* 60000, five and six words; and the profile with none of the three keys
WideProfiles ==
    {[program |-> "CS", gpa |-> g, budget |-> b, work_experience |-> w] :
        g \in {0 - 10, 0, 10, 20, 38, 45}, b \in {0, 60000}, w \in {5, 6}}
    \cup {[program |-> "CS"]}

\* similarity 0, 1 and 1.2; rates -0.2 to 1.75; annual costs of 24000, 69000,
\* 76000 and 114000; employment 0 and 1; a deadline 9 and 99 days ahead, one
\* that is no date and a blank one
WidePool ==
    {Candidate(sim, ar, tu, 2000, ro, er, dl) :
        sim \in {0, 1000, 1200}, ar \in {0 - 200, 0, 500, 1000, 1750},
        tu \in {0, 45000, 52000, 90000}, ro \in {"Very High", "Medium"},
        er \in {0, 1000}, dl \in {Iso(10), Iso(100), Text, Blank}}
    \cup {Put(DemoCandidate, [research_output |-> ro]) : ro \in AllResearchLabels}

InitScores ==
    /\ \E u \in WidePool : universities = Named(<<u>>)
    /\ given = universities
    /\ student_profile \in WideProfiles
    /\ now = 12
    /\ pc = "call"
    /\ idx = 0
    /\ student_strength = Zero
    /\ budget = 0
    /\ portfolio = <<>>
    /\ weights = WeightTable
    /\ previous = <<>>
    /\ other = NoOther

NextScores ==
    \/ RankBegin
    \/ RankScore
    \/ RankSort

SpecScores == InitScores /\ [][NextScores]_vars

(***************************************************************************)
(* Lists of up to MaxLong candidates, ranked and balanced: the sample      *)
(* candidate with its acceptance rate taken in turn from a palette         *)
(***************************************************************************)
\* Palettes of rates: two inside [0, 1] (the second the single rate 1.0),
\* one partly and one wholly outside.
RatePalettes ==
    { <<500, 0, 400, 1000, 600, 300>>,
      <<1000>>,
      <<1000, 900, 1150, 800>>,
      <<1750, 1300, 500, 1650, 1200>> }

LongInputs ==
    {Named([j \in 1..n |->
               Put(DemoCandidate, [acceptance_rate |-> pal[((j - 1) % Len(pal)) + 1]])]) :
        n \in 0..MaxLong, pal \in RatePalettes}

\* strengths 0.25 to 1.0, among them 0.575 (gpa 2.3) and 0.7 (gpa 2.8)
LongProfiles ==
    {[program |-> "CS", gpa |-> g, budget |-> 60000, work_experience |-> w] :
        g \in {10, 20, 23, 24, 28, 29, 30, 38}, w \in {5, 6}}

InitLong ==
    /\ universities \in LongInputs
    /\ given = universities
    /\ student_profile \in LongProfiles
    /\ now = 12
    /\ pc = "call"
    /\ idx = 0
    /\ student_strength = Zero
    /\ budget = 0
    /\ portfolio = <<>>
    /\ weights = WeightTable
    /\ previous = <<>>
    /\ other = NoOther

NextLong ==
    \/ RankBegin
    \/ RankScore
    \/ RankSort
    \/ Balance

SpecLong == InitLong /\ [][NextLong]_vars

(***************************************************************************)
(* Properties                                                              *)
(***************************************************************************)
Returned == pc \in {"ranked", "done"}
Failed == pc \in {"raised", "fallback"}
HasAll(u, ks) == ks \subseteq DOMAIN u
IsScored(u) == HasAll(u, ResultKeys)
Positions(l) == 1..Len(l)
SeqToBag(l) == [x \in {l[j] : j \in Positions(l)} |-> Cardinality({j \in Positions(l) : l[j] = x})]
NonIncreasing(l) == \A j \in 1..(Len(l) - 1) : l[j]["final_score"] >= l[j + 1]["final_score"]

\* the weighted sum of a stored score_breakdown, in units of 1/100000
WeightedSum(sb) ==
    30 * sb.semantic + 20 * sb.acceptance_fit.milli + 20 * sb.financial_fit
    + 15 * sb.research + 10 * sb.employment + 5 * sb.deadline

\* C1: after rank_universities returns, every candidate's final_score is the
\* thousandth nearest to 0.30*semantic + 0.20*acceptance_fit + 0.20*financial_fit
\* + 0.15*research + 0.10*employment + 0.05*deadline, the six terms being the
\* values stored in that candidate's score_breakdown.
C1_FinalScoreIsRoundedWeightedSum ==
    Returned =>
        \A j \in Positions(universities) :
            LET u == universities[j]
            IN  /\ IsScored(u)
                /\ Abs(100 * u["final_score"] - WeightedSum(u["score_breakdown"])) <= 50

\* a returned candidate whose weighted sum had to be rounded up
C1_Witness ==
    /\ Returned
    /\ \E j \in Positions(universities) :
          WeightedSum(universities[j]["score_breakdown"]) % 100 > 50

\* C2: the list rank_universities returns is a permutation of the input
\* candidates (same records, same length) in non-increasing final_score order.
C2_RankedIsSortedPermutation ==
    Returned =>
        /\ Len(universities) = Len(given)
        /\ SeqToBag([j \in Positions(universities) |-> Without(universities[j], ResultKeys)])
             = SeqToBag(given)
        /\ NonIncreasing(universities)

\* a returned list of three whose order the sort changed
C2_Witness ==
    /\ Returned
    /\ Len(universities) = 3
    /\ \E j \in Positions(universities) : universities[j]["univ_name"] # j
    /\ universities[1]["final_score"] > universities[3]["final_score"]

\* C3: the category of every scored candidate is Target exactly when
\* acceptance_fit > 0.7, Safety exactly when that fails and student_strength >
\* 0.7 and acceptance_fit > 0.4, Reach exactly when both fail; the comparisons
\* are strict, and acceptance_fit = 0.75 is Target whatever the strength.
C3_CategoryPriority ==
    \A j \in Positions(universities) :
        Has(universities[j], "score_breakdown") =>
            LET fit == universities[j]["score_breakdown"].acceptance_fit
                cat == universities[j]["category"]
                above07 == FloatLess(Threshold07, fit)
                above04 == FloatLess(Threshold04, fit)
                strong == FloatLess(Threshold07, student_strength)
            IN  /\ cat \in {"Target", "Safety", "Reach"}
                /\ (cat = "Target") <=> above07
                /\ (cat = "Safety") <=> (~above07 /\ strong /\ above04)
                /\ (cat = "Reach") <=> (~above07 /\ (~strong \/ ~above04))
                /\ (fit.milli = 750) => (cat = "Target")

\* acceptance_fit 0.75 under a strength above 0.7, where the Safety test would
\* pass too, is Target
C3_Witness ==
    \E j \in Positions(universities) :
        /\ Has(universities[j], "score_breakdown")
        /\ universities[j]["score_breakdown"].acceptance_fit.milli = 750
        /\ FloatLess(Threshold07, student_strength)
        /\ universities[j]["category"] = "Target"

\* position in the Reach, Target, Safety block order
BlockOf(u) == CASE u["category"] = "Reach" -> 1
                [] u["category"] = "Target" -> 2
                [] OTHER -> 3

\* the number of records of l[j]'s category among l[1..j]
RankInCategory(l, j) == Cardinality({k \in 1..j : l[k]["category"] = l[j]["category"]})

\* the positions of l within the first 3 Reach, 4 Target or 3 Safety records
WithinQuota(l) ==
    {j \in Positions(l) :
        RankInCategory(l, j) <= (IF l[j]["category"] = "Target" THEN 4 ELSE 3)}

\* C4: balance_portfolio returns exactly the first min(3, #Reach) Reach, the
\* first min(4, #Target) Target and the first min(3, #Safety) Safety records of
\* its input, in input order within each category, with no backfill: at most 10
\* items, 10 for the 5/5/5 list and 8 for 1 Reach, 10 Target, 10 Safety.
C4_QuotasWithoutBackfill ==
    pc = "done" =>
        /\ Len(portfolio) = Cardinality(WithinQuota(universities))
        /\ Len(portfolio) <= 10
        /\ \A p \in Positions(portfolio) :
              /\ portfolio[p]["univ_name"] \in WithinQuota(universities)
              /\ portfolio[p] = universities[portfolio[p]["univ_name"]]
        /\ \A p, q \in Positions(portfolio) :
              (p < q /\ portfolio[p]["category"] = portfolio[q]["category"])
                  => portfolio[p]["univ_name"] < portfolio[q]["univ_name"]
        /\ (universities = Example555) => Len(portfolio) = 10
        /\ (universities = Example1_10_10) => Len(portfolio) = 8

\* the shortfall example: one Reach record, and the portfolio has 8 items
C4_Witness ==
    /\ pc = "done"
    /\ universities = Example1_10_10
    /\ Len(portfolio) = 8
    /\ Len(OfCategory(portfolio, "Reach")) = 1

\* C5: in the result of balance_portfolio every Reach item precedes every
\* Target item and every Target item every Safety item; when the input is in
\* non-increasing final_score order, so is each of the three blocks.
C5_BlockOrder ==
    pc = "done" =>
        /\ \A p, q \in Positions(portfolio) :
              p < q => BlockOf(portfolio[p]) <= BlockOf(portfolio[q])
        /\ NonIncreasing(universities) =>
              \A p \in 1..(Len(portfolio) - 1) :
                  BlockOf(portfolio[p]) = BlockOf(portfolio[p + 1])
                      => portfolio[p]["final_score"] >= portfolio[p + 1]["final_score"]

\* a sorted input whose portfolio has all three blocks and a score that rises
\* from one block to the next: the blocks were not sorted against each other
C5_Witness ==
    /\ pc = "done"
    /\ NonIncreasing(universities)
    /\ {BlockOf(portfolio[p]) : p \in Positions(portfolio)} = {1, 2, 3}
    /\ \E p \in 1..(Len(portfolio) - 1) :
          /\ BlockOf(portfolio[p]) < BlockOf(portfolio[p + 1])
          /\ portfolio[p]["final_score"] < portfolio[p + 1]["final_score"]

\* C6 as claimed: the portfolio of balance_portfolio(rank_universities(...)) is
\* in descending final_score order, every item at least its successor.
C6_PortfolioDescending ==
    pc = "done" => NonIncreasing(portfolio)

\* C6 as amended: the portfolio is block-ordered by category and descending
\* within each block: adjacent items of one category are in non-increasing
\* final_score order.
C6_PortfolioDescendingWithinBlocks ==
    pc = "done" =>
        \A p \in 1..(Len(portfolio) - 1) :
            portfolio[p]["category"] = portfolio[p + 1]["category"]
                => portfolio[p]["final_score"] >= portfolio[p + 1]["final_score"]

\* a portfolio of a ranked list with two items of one category and different
\* scores, and a later block that outscores an earlier one
C6_Witness ==
    /\ pc = "done"
    /\ \E p \in 1..(Len(portfolio) - 1) :
          /\ portfolio[p]["category"] = portfolio[p + 1]["category"]
          /\ portfolio[p]["final_score"] > portfolio[p + 1]["final_score"]
    /\ \E p \in 1..(Len(portfolio) - 1) :
          portfolio[p]["final_score"] < portfolio[p + 1]["final_score"]

\* C7 as claimed: a list in which some record lacks raw fields is ranked
\* without raising, and every record ends up with final_score, score_breakdown
\* and category.
C7_MalformedRecordNeverFails ==
    (\E j \in Positions(given) : ~HasAll(given[j], RawKeys)) =>
        /\ ~Failed
        /\ Returned => \A j \in Positions(universities) : IsScored(universities[j])

\* C8 as claimed: once the call has ended, a record that lacks tuition_usd or
\* living_cost_monthly (and nothing else) has the financial_fit of its
\* remaining cost, the missing value counted as 0.
C8_MissingCostCountsAsZero ==
    pc \in {"ranked", "done", "raised", "fallback"} =>
        \A j \in Positions(universities) :
            LET u == universities[j]
            IN  (/\ HasAll(u, RawKeys \ {"tuition_usd", "living_cost_monthly"})
                 /\ ~HasAll(u, {"tuition_usd", "living_cost_monthly"}))
                => /\ Has(u, "score_breakdown")
                   /\ u["score_breakdown"].financial_fit
                        = calculate_financial_fit(Get(u, "tuition_usd", 0), budget,
                                                  Get(u, "living_cost_monthly", 0))

\* C9 as claimed: a deadline that is not a calendar date scores the neutral
\* 0.5 and the call does not fail on it.
C9_UnparseableDeadlineIsNeutral ==
    \A j \in Positions(universities) :
        (HasAll(universities[j], RawKeys) /\ universities[j]["deadline"].kind # "iso") =>
            /\ (pc = "raised" => idx # j)
            /\ Has(universities[j], "score_breakdown")
                  => universities[j]["score_breakdown"].deadline = 500

\* C10: for an empty candidate list rank_universities returns an empty list
\* and balance_portfolio an empty portfolio, and neither raises.
C10_EmptyListIsNotAnError ==
    (Len(given) = 0) =>
        /\ ~Failed
        /\ universities = <<>>
        /\ portfolio = <<>>

\* the empty list went through both calls
C10_Witness ==
    /\ Len(given) = 0
    /\ pc = "done"
    /\ idx = 1

\* C11: rank_universities run again with the same profile and clock on the
\* list it has just returned gives every candidate the same final_score,
\* score_breakdown and category and leaves the list in the same order.
C11_RerunChangesNothing ==
    (previous # <<>> /\ Returned) => universities = previous[1]

\* a second call returned a list of three that holds two equal scores and
\* whose order differs from the order first passed in
C11_Witness ==
    /\ previous # <<>>
    /\ Returned
    /\ Len(universities) = 3
    /\ universities[1]["univ_name"] # 1
    /\ \E j \in 1..2 : universities[j]["final_score"] = universities[j + 1]["final_score"]

\* the records of a list without the three keys rank_universities writes
RawParts(l) == [j \in Positions(l) |-> Without(l[j], ResultKeys)]

\* C12: every step of rank_universities keeps the list's length, leaves every
\* field of every record other than final_score, score_breakdown and category
\* as it was (adding no other key), and leaves the student profile and the
\* weight table unchanged; the list it returns is the list it was given.
C12_RankWritesOnlyResultKeys ==
    [][(pc \in {"call", "loop"}) =>
          /\ Len(universities') = Len(universities)
          /\ SeqToBag(RawParts(universities')) = SeqToBag(RawParts(universities))
          /\ student_profile' = student_profile
          /\ weights' = weights]_vars

\* a call under the sample profile returned two scored records in exchanged
\* order
C12_Witness ==
    /\ pc = "ranked"
    /\ student_profile = DemoProfile
    /\ Len(universities) = 2
    /\ universities[1]["univ_name"] = 2
    /\ \A j \in 1..2 : IsScored(universities[j])

\* C13: balance_portfolio leaves its input untouched (same length, same
\* order, every record as it was) and every item of its result is one of the
\* input records.
C13_BalanceLeavesInputUntouched ==
    pc = "done" =>
        /\ universities = given
        /\ \A p \in Positions(portfolio) :
              \E j \in Positions(universities) : portfolio[p] = universities[j]

\* a non-empty portfolio shorter than its input
C13_Witness ==
    /\ pc = "done"
    /\ portfolio # <<>>
    /\ Len(portfolio) < Len(universities)
    /\ Len(universities) = Len(given)

\* what one invocation run alone makes of list l under a profile
RankedAlone(l, profile) ==
    SortDesc([j \in Positions(l) |->
                 ScoreOne(l[j], calculate_student_strength(profile),
                          Get(profile, "budget", 50000), now)])

\* C14: two invocations that share one UniversityRanker, run on disjoint
\* lists and interleave at any per-candidate step each leave their list in
\* the state (scores, categories, order) the invocation alone would produce.
C14_ConcurrentCallsDoNotInterfere ==
    /\ (pc = "ranked") => universities = RankedAlone(given, student_profile)
    /\ (other.pc = "ranked") =>
          other.universities = RankedAlone(other.given, other.student_profile)

\* both invocations, under different profiles, have returned lists of two
C14_Witness ==
    /\ pc = "ranked"
    /\ other.pc = "ranked"
    /\ student_profile # other.student_profile
    /\ Len(universities) = 2
    /\ Len(other.universities) = 2

\* C15: for the profile {gpa 3.8, budget 60000, 7 words of work experience}
\* and the single candidate {0.92, 0.04, 55000, 2000, 'Very High', 0.95,
\* deadline 180 or more days away} rank_universities computes student
\* strength 1.0, acceptance_fit 0, financial_fit 0.2, final_score 0.606 and
\* category Reach.
C15_EndToEndScenario ==
    (/\ Returned
     /\ student_profile = DemoProfile
     /\ given = Named(<<DemoCandidate>>)) =>
        /\ student_strength = One
        /\ Len(universities) = 1
        /\ universities[1]["score_breakdown"].acceptance_fit = Zero
        /\ universities[1]["score_breakdown"].financial_fit = 200
        /\ universities[1]["final_score"] = 606
        /\ universities[1]["category"] = "Reach"

\* the scenario has run: the sample candidate, 199 whole days before its
\* deadline, was ranked under the sample profile
C15_Witness ==
    /\ pc = "ranked"
    /\ student_profile = DemoProfile
    /\ given = Named(<<DemoCandidate>>)
    /\ DaysBetween(to_datetime(given[1]["deadline"]), now) >= 180
    /\ IsScored(universities[1])

\* C16: two candidates that end with equal final_score are returned in the
\* order they had in the input list (univ_name is the input position).
C16_TiesKeepInputOrder ==
    Returned =>
        \A p, q \in Positions(universities) :
            (p < q /\ universities[p]["final_score"] = universities[q]["final_score"])
                => universities[p]["univ_name"] < universities[q]["univ_name"]

\* the third input record outscored the first two, which tie: it moved to the
\* front and the two kept their order
C16_Witness ==
    /\ pc = "ranked"
    /\ previous = <<>>
    /\ Len(universities) = 3
    /\ universities[1]["univ_name"] = 3
    /\ universities[2]["univ_name"] = 1
    /\ universities[3]["univ_name"] = 2
    /\ universities[2]["final_score"] = universities[3]["final_score"]

\* C17: balance_portfolio(rank_universities(candidates, profile)) is empty
\* exactly when candidates is empty, every ranked candidate being in one of
\* the Reach, Target and Safety groups.
C17_PortfolioEmptyIffInputEmpty ==
    pc = "done" =>
        /\ (portfolio = <<>>) <=> (given = <<>>)
        /\ \A j \in Positions(universities) :
              Cardinality({c \in {"Reach", "Target", "Safety"} :
                              universities[j]["category"] = c}) = 1

\* three candidates of three different categories gave a three-item portfolio
C17_Witness ==
    /\ pc = "done"
    /\ Len(given) = 3
    /\ Len(portfolio) = 3
    /\ {portfolio[p]["category"] : p \in 1..3} = {"Reach", "Target", "Safety"}

\* the six entries of a score_breakdown all equal v
AllSubScoresAre(sb, v) ==
    /\ sb.semantic = v
    /\ sb.acceptance_fit = Float(v, 0)
    /\ sb.financial_fit = v
    /\ sb.research = v
    /\ sb.employment = v
    /\ sb.deadline = v

\* C18: the six weights sum to exactly 1.00, so a candidate whose similarity
\* and sub-scores all equal v has final_score v; in particular the fully
\* neutral candidate (all 0.5) scores 0.5.
C18_WeightsSumToOne ==
    /\ weights.semantic_similarity + weights.acceptance_fit + weights.financial_fit
         + weights.research_quality + weights.employment_rate + weights.deadline_urgency
         = 100
    /\ \A j \in Positions(universities) :
          Has(universities[j], "score_breakdown") =>
              \A v \in {universities[j]["score_breakdown"].semantic} :
                  AllSubScoresAre(universities[j]["score_breakdown"], v)
                      => universities[j]["final_score"] = v

\* a fully neutral candidate was scored 0.5
C18_Witness ==
    \E j \in Positions(universities) :
        /\ Has(universities[j], "score_breakdown")
        /\ AllSubScoresAre(universities[j]["score_breakdown"], 500)
        /\ universities[j]["final_score"] = 500

\* C19 as claimed: financial_fit is 1.0 when total_cost = tuition + 12 *
\* living cost is at most the budget, 0.8 when it is at most 115% of the
\* budget, 0.5 when at most 130%, 0.2 otherwise, each tier including its upper
\* bound: a total of exactly 1.15 * budget scores 0.8.
C19_FinancialTiersInclusive ==
    \A j \in Positions(universities) :
        Has(universities[j], "score_breakdown") =>
            LET total_cost == universities[j]["tuition_usd"]
                                + 12 * universities[j]["living_cost_monthly"]
                fit == universities[j]["score_breakdown"].financial_fit
            IN  /\ (total_cost <= budget) => fit = 1000
                /\ (total_cost > budget /\ 100 * total_cost <= 115 * budget) => fit = 800
                /\ (100 * total_cost > 115 * budget /\ 100 * total_cost <= 130 * budget)
                      => fit = 500
                /\ (100 * total_cost > 130 * budget) => fit = 200

\* the score the claim gives to a number of whole days remaining
DeadlineTier(days) ==
    CASE days < 30 -> 300
      [] days >= 30 /\ days <= 89 -> 700
      [] days >= 90 /\ days <= 179 -> 1000
      [] OTHER -> 900

\* C20: for a parseable deadline the deadline score depends only on the whole
\* days from now to the deadline (the floor of the difference): below 30,
\* passed deadlines included, 0.3; 30 to 89, 0.7; 90 to 179, 1.0; 180 or more,
\* 0.9; so 29, 30, 89, 90, 179, 180 give 0.3, 0.7, 0.7, 1.0, 1.0, 0.9.
C20_DeadlineTiers ==
    \A j \in Positions(universities) :
        (Has(universities[j], "score_breakdown") /\ universities[j]["deadline"].kind = "iso") =>
            LET hours == 24 * universities[j]["deadline"].day - now
                score == universities[j]["score_breakdown"].deadline
            IN  \E days \in (0 - 6)..MaxDay :
                    /\ 24 * days <= hours
                    /\ hours < 24 * (days + 1)
                    /\ score = DeadlineTier(days)
                    /\ days = 29 => score = 300
                    /\ days = 30 => score = 700
                    /\ days = 89 => score = 700
                    /\ days = 90 => score = 1000
                    /\ days = 179 => score = 1000
                    /\ days = 180 => score = 900

\* at noon, a deadline 181 days ahead has 180 whole days left and scores 0.9
C20_Witness ==
    /\ now = 12
    /\ \E j \in Positions(universities) :
          /\ Has(universities[j], "score_breakdown")
          /\ universities[j]["deadline"] = Iso(181)
          /\ universities[j]["score_breakdown"].deadline = 900

\* acceptance_rate - 2 * strength for the doubles the code holds, exactly
GapToIdeal(u, strength) ==
    Float(u["acceptance_rate"] - 2 * strength.milli,
          FromDecimal(u["acceptance_rate"]).err - 2 * strength.err)

Negated(a) == Float(0 - a.milli, 0 - a.err)

\* C21: the acceptance fit of every scored candidate is max(0, 1 - 2 * |rate
\* - 2s|) (to the thousandth, and within 2^-50 of it); it is exactly 1.0 when
\* the rate equals 2s, exactly 0 whenever |rate - 2s| >= 0.5, and two
\* candidates whose rates lie at the same distance on either side of 2s have
\* the same fit.
C21_AcceptanceFitFormula ==
    \A j \in Positions(universities) :
        Has(universities[j], "score_breakdown") =>
            LET fit == universities[j]["score_breakdown"].acceptance_fit
                gap == GapToIdeal(universities[j], student_strength)
            IN  /\ fit.milli = Max(0, 1000 - 2 * Abs(gap.milli))
                /\ Abs(fit.err) <= 1000 * Pow2(14)
                /\ (gap = Zero) => (fit = One)
                /\ ~FloatLess(FloatAbs(gap), Float(500, 0)) => (fit = Zero)
                /\ \A k \in Positions(universities) :
                      (/\ Has(universities[k], "score_breakdown")
                       /\ GapToIdeal(universities[k], student_strength) = Negated(gap))
                      => universities[k]["score_breakdown"].acceptance_fit = fit

\* under a strength of 0.25 the rates 0.0 and 1.0, at 2s - 0.5 and 2s + 0.5,
\* both scored 0, in a list returned
C21_Witness ==
    /\ pc = "ranked"
    /\ student_strength = Float(250, 0)
    /\ {universities[j]["acceptance_rate"] : j \in Positions(universities)} = {0, 1000}
    /\ \A j \in Positions(universities) :
          universities[j]["score_breakdown"].acceptance_fit = Zero

\* C22: calculate_research_score gives 1.0, 0.8, 0.6 and 0.4 for 'Very High',
\* 'High', 'Good' and 'Medium' and 0.5 for every other label, an empty or
\* missing one included, and the call does not fail on any of them.
C22_ResearchMapping ==
    /\ ~Failed
    /\ (pc = "ranked") => \A j \in Positions(universities) : IsScored(universities[j])
    /\ \A j \in Positions(universities) :
          Has(universities[j], "score_breakdown") =>
              LET label == universities[j]["research_output"]
                  research == universities[j]["score_breakdown"].research
              IN  /\ (label = "Very High") => research = 1000
                  /\ (label = "High") => research = 800
                  /\ (label = "Good") => research = 600
                  /\ (label = "Medium") => research = 400
                  /\ (label \notin {"Very High", "High", "Good", "Medium"}) => research = 500

\* a record whose research_output cell holds no label was ranked with 0.5
C22_Witness ==
    /\ pc = "ranked"
    /\ universities[1]["research_output"] = NoLabel
    /\ universities[1]["score_breakdown"].research = 500

\* the strength, in thousandths, that the claim gives a profile
ClaimedStrength(profile) ==
    LET base == Min(25 * Get(profile, "gpa", 30), 1000)
    IN  IF Get(profile, "work_experience", 0) > 5 THEN Min(base + 100, 1000) ELSE base

\* C23: from the first step of a rank_universities call to its return the
\* student strength is the one value min(gpa / 4.0, 1.0), plus 0.1 clamped
\* to at most 1.0 when work_experience has more than five words (to the
\* thousandth and within 2^-52 of it); five words earn nothing, six the bonus.
C23_StrengthOncePerCall ==
    (pc \in {"loop", "ranked"}) =>
        LET gpa == Get(student_profile, "gpa", 30)
            words == Get(student_profile, "work_experience", 0)
        IN  /\ student_strength.milli = ClaimedStrength(student_profile)
            /\ Abs(student_strength.err) <= 1000 * Pow2(12)
            /\ (words = 5) => student_strength.milli = Min(25 * gpa, 1000)
            /\ (words = 6) => student_strength.milli = Min(Min(25 * gpa, 1000) + 100, 1000)
            /\ \A j \in Positions(universities) :
                  Has(universities[j], "score_breakdown") =>
                      universities[j]["score_breakdown"].acceptance_fit
                          = calculate_acceptance_fit(universities[j]["acceptance_rate"],
                                                     student_strength)

\* six words with a gpa of 3.8: 0.95 + 0.1 was clamped to 1.0, and the
\* candidate was scored with it
C23_Witness ==
    /\ pc = "ranked"
    /\ Get(student_profile, "gpa", 30) = 38
    /\ Get(student_profile, "work_experience", 0) = 6
    /\ student_strength = One
    /\ IsScored(universities[1])

C25_SubScoresInUnitInterval ==
    \A j \in Positions(universities) :
        Has(universities[j], "score_breakdown") =>
            LET u == universities[j]
                sb == u["score_breakdown"]
            IN  /\ ~FloatLess(sb.acceptance_fit, Zero)
                /\ ~FloatLess(One, sb.acceptance_fit)
                /\ sb.financial_fit \in 0..1000
                /\ sb.research \in 0..1000
                /\ sb.deadline \in 0..1000
                /\ sb.semantic = u["similarity_score"]
                /\ sb.employment = u["employment_rate_6mo"]

\* a negative strength, a negative acceptance rate and a similarity of 1.2:
\* the fit is 0.4 and the similarity is stored as it came
C25_Witness ==
    /\ pc = "ranked"
    /\ FloatLess(student_strength, Zero)
    /\ universities[1]["acceptance_rate"] < 0
    /\ universities[1]["score_breakdown"].acceptance_fit.milli = 400
    /\ universities[1]["score_breakdown"].semantic = 1200

\* C30: a candidate whose similarity_score and employment_rate_6mo lie in
\* [0, 1] is given a final_score in [0.115, 1.0], whatever the profile and its
\* other fields: its financial, research and deadline scores are at least
\* 0.2, 0.4 and 0.3, and 0.2 * 0.20 + 0.4 * 0.15 + 0.3 * 0.05 = 0.115.
C30_FinalScoreRange ==
    \A j \in Positions(universities) :
        Has(universities[j], "score_breakdown") =>
            LET u == universities[j]
                sb == u["score_breakdown"]
            IN  /\ sb.financial_fit >= 200
                /\ sb.research >= 400
                /\ sb.deadline >= 300
                /\ (u["similarity_score"] \in 0..1000 /\ u["employment_rate_6mo"] \in 0..1000)
                      => (u["final_score"] >= 115 /\ u["final_score"] <= 1000)

\* the lowest score: similarity, fit and employment 0, the cost beyond 130%
\* of the budget, research 'Medium', the deadline 9 days ahead
C30_Witness ==
    /\ pc = "ranked"
    /\ universities[1]["final_score"] = 115
    /\ universities[1]["score_breakdown"].acceptance_fit = Zero
    /\ universities[1]["score_breakdown"].financial_fit = 200
    /\ universities[1]["score_breakdown"].research = 400
    /\ universities[1]["score_breakdown"].deadline = 300

\* C26: the category of a scored candidate is a function of its
\* acceptance_rate and the student strength alone: two candidates of one list
\* with the same rate have the same category, whatever their other fields,
\* scores and positions, and in every list a candidate has the category its
\* rate and the strength give.
C26_CategoryDependsOnRateAndStrength ==
    \A j \in Positions(universities) :
        Has(universities[j], "category") =>
            /\ universities[j]["category"]
                  = categorize_university(
                        calculate_acceptance_fit(universities[j]["acceptance_rate"],
                                                 student_strength),
                        student_strength)
            /\ \A k \in Positions(universities) :
                  (/\ Has(universities[k], "category")
                   /\ universities[k]["acceptance_rate"] = universities[j]["acceptance_rate"])
                  => universities[k]["category"] = universities[j]["category"]

\* two candidates with the same rate and different similarity, cost, research
\* label, employment rate, deadline and final_score are both Safety, the
\* second of the input ranked first
C26_Witness ==
    /\ pc = "ranked"
    /\ universities[1]["univ_name"] = 2
    /\ universities[1]["acceptance_rate"] = universities[2]["acceptance_rate"]
    /\ universities[1]["final_score"] > universities[2]["final_score"]
    /\ universities[1]["category"] = "Safety"
    /\ universities[2]["category"] = "Safety"

\* every acceptance_rate of the list is in its documented domain [0, 1]
RatesInDomain(l) == \A j \in Positions(l) : l[j]["acceptance_rate"] \in 0..1000

\* C27: a candidate whose acceptance_rate lies in [0, 1] is never Safety,
\* whatever the profile; so for a list of such candidates the portfolio holds
\* no Safety item and at most 7 items.
C27_NoSafetyInDomain ==
    /\ \A j \in Positions(universities) :
          (Has(universities[j], "category") /\ universities[j]["acceptance_rate"] \in 0..1000)
              => universities[j]["category"] # "Safety"
    /\ (pc = "done" /\ RatesInDomain(given)) =>
          /\ OfCategory(portfolio, "Safety") = <<>>
          /\ Len(portfolio) <= 7

\* nine candidates with rates in [0, 1]: three Reach and four Target were
\* selected and two candidates left out
C27_Witness ==
    /\ pc = "done"
    /\ RatesInDomain(given)
    /\ Len(given) = 9
    /\ Len(portfolio) = 7
    /\ Len(OfCategory(portfolio, "Reach")) = 3
    /\ Len(OfCategory(portfolio, "Target")) = 4

\* C28 as claimed: under a student strength of at least 0.575 every candidate
\* with an acceptance_rate in [0, 1] is Reach, and the portfolio of a list of
\* such candidates has at most 3 items.
C28_AllReachFromStrength0575 ==
    ~FloatLess(student_strength, FromDecimal(575)) =>
        /\ \A j \in Positions(universities) :
              (Has(universities[j], "category")
               /\ universities[j]["acceptance_rate"] \in 0..1000)
                  => universities[j]["category"] = "Reach"
        /\ (pc = "done" /\ RatesInDomain(given)) => Len(portfolio) <= 3

\* C29: when rank_universities raises at the record in position idx, the
\* records before it carry final_score, score_breakdown and category, that
\* record and the later ones carry none of the three, and the list is in the
\* order in which it was passed, every other field as it was.
C29_FailureLeavesPartialScores ==
    (pc = "raised") =>
        /\ idx \in Positions(universities)
        /\ ~HasAll(universities[idx], RawKeys)
        /\ \A j \in Positions(universities) :
              /\ (j < idx) => IsScored(universities[j])
              /\ (j >= idx) => (DOMAIN universities[j]) \cap ResultKeys = {}
              /\ universities[j]["univ_name"] = j
        /\ RawParts(universities) = given

\* the call failed at the third record: the first two are scored, the lower
\* score first, and the third is not
C29_Witness ==
    /\ pc = "raised"
    /\ idx = 3
    /\ Len(universities) = 3
    /\ IsScored(universities[1])
    /\ IsScored(universities[2])
    /\ universities[1]["final_score"] < universities[2]["final_score"]
    /\ ~Has(universities[3], "final_score")

====
